---- MODULE Spec2Model ----
(***************************************************************************)
(* A model of codebase_summarizer3.py: gitignore-style filtering, the      *)
(* proportional token budget, and the batch loop of process_directory with *)
(* its persisted aggregate document.                                       *)
(***************************************************************************)
EXTENDS Integers, Sequences, FiniteSets, TLC

(***************************************************************************)
(* IEEE-754 double arithmetic, as far as calculate_batch_token_limit uses  *)
(* it: the quotient of two integers, the product of that quotient with an  *)
(* integer, and the truncation of the product.  A positive double is a     *)
(* record [m, e]: m is its 53-bit significand, most significant bit first  *)
(* (m[1] = 1), and its value is 1.m[2]m[3]... * 2^e.                        *)
(***************************************************************************)
MantissaBits == 53

RECURSIVE Pow2(_)
Pow2(n) == IF n = 0 THEN 1 ELSE 2 * Pow2(n - 1)

\* The largest i >= 0 with d * 2^i <= n (for n >= d > 0).
RECURSIVE ShiftUp(_, _, _)
ShiftUp(n, d, i) == IF d * Pow2(i + 1) <= n THEN ShiftUp(n, d, i + 1) ELSE i

\* The smallest j >= 0 with n * 2^j >= d (for n > 0).
RECURSIVE ShiftDown(_, _, _)
ShiftDown(n, d, j) == IF n * Pow2(j) >= d THEN j ELSE ShiftDown(n, d, j + 1)

\* k more quotient bits of r / d by long division, appended to acc.
RECURSIVE LongDiv(_, _, _, _)
LongDiv(r, d, k, acc) ==
    IF Len(acc) > 0 /\ k = 0 THEN [bits |-> acc, rem |-> r]
    ELSE IF 2 * r >= d THEN LongDiv(2 * r - d, d, k - 1, Append(acc, 1))
         ELSE LongDiv(2 * r, d, k - 1, Append(acc, 0))

\* bits + 1, on a sequence of bits; a carry out of the top bit lengthens it.
RECURSIVE IncBits(_, _)
IncBits(bits, k) ==
    IF k = 0 THEN <<1>> \o bits
    ELSE IF bits[k] = 0 THEN [bits EXCEPT ![k] = 1]
         ELSE IncBits([bits EXCEPT ![k] = 0], k - 1)

\* Round-to-nearest, ties-to-even, of the exact value bits * 2^e (bits[1] = 1 is
\* the unit of 2^e, at least 53 bits) plus a remainder that is below, at or
\* above one half of the last place (half = 0, 1, 2 compares it with one half).
RoundNearestEven(bits, e, half) ==
    LET kept == SubSeq(bits, 1, MantissaBits)
        up   == half = 2 \/ (half = 1 /\ kept[MantissaBits] = 1)
        inc  == IncBits(kept, MantissaBits)
    IN  IF ~up THEN [m |-> kept, e |-> e]
        ELSE IF Len(inc) > MantissaBits
             THEN [m |-> SubSeq(inc, 1, MantissaBits), e |-> e + 1]
             ELSE [m |-> inc, e |-> e]

\* float(b) / float(t) for integers b > 0, t > 0: the correctly rounded quotient.
FloatDiv(b, t) ==
    LET up   == IF b >= t THEN ShiftUp(b, t, 0) ELSE 0
        down == IF b >= t THEN 0 ELSE ShiftDown(b, t, 0)
        n    == b * Pow2(down)
        d    == t * Pow2(up)
        q    == LongDiv(n - d, d, MantissaBits - 1, <<1>>)
        half == IF 2 * q.rem > d THEN 2 ELSE IF 2 * q.rem = d THEN 1 ELSE 0
    IN  RoundNearestEven(q.bits, up - down, half)

\* The exact product of the integer with bits `bits` and the integer c >= 1.
RECURSIVE MulSmall(_, _, _, _, _)
MulSmall(bits, c, k, carry, acc) ==
    IF Len(acc) >= 0 /\ carry = 0 /\ k = 0 THEN acc
    ELSE IF k = 0
         THEN MulSmall(bits, c, 0, carry \div 2, <<carry % 2>> \o acc)
         ELSE LET v == bits[k] * c + carry
              IN  MulSmall(bits, c, k - 1, v \div 2, <<v % 2>> \o acc)

\* TRUE iff some bit of bits[from..Len(bits)] is set.
AnySet(bits, from) == \E k \in from..Len(bits) : bits[k] = 1

\* x * float(c) for a positive double x and an integer c >= 1, correctly rounded.
FloatMul(x, c) ==
    LET p     == MulSmall(x.m, c, MantissaBits, 0, <<>>)
        extra == Len(p) - MantissaBits
        half  == IF extra = 0 \/ p[MantissaBits + 1] = 0 THEN 0
                 ELSE IF AnySet(p, MantissaBits + 2) THEN 2 ELSE 1
    IN  RoundNearestEven(p, x.e + extra, half)

\* The integer whose binary digits are bits[1..n], given acc for bits[1..k-1].
RECURSIVE BitsToInt(_, _, _, _)
BitsToInt(bits, n, k, acc) ==
    IF acc >= 0 /\ k > n THEN acc ELSE BitsToInt(bits, n, k + 1, 2 * acc + bits[k])

\* int(x) for a positive double x below 2^31: truncation toward zero.
FloatToInt(x) ==
    IF x.e < 0 THEN 0 ELSE BitsToInt(x.m, x.e + 1, 1, 0)

\* int((b / t) * c) as Python computes it on doubles, for b >= 0, t > 0, c >= 0.
IntOfProportion(b, t, c) ==
    IF b = 0 \/ c = 0 THEN 0 ELSE FloatToInt(FloatMul(FloatDiv(b, t), c))

(***************************************************************************)
(* calculate_batch_token_limit                                             *)
(***************************************************************************)
minimum_limit == 500

Max(a, b) == IF a >= b THEN a ELSE b

\* A variant without the minimum.
calculate_batch_token_limit_no_floor(batch_size_bytes, size, limit) ==
    IF size <= 0 THEN limit \div 10
    ELSE IntOfProportion(batch_size_bytes, size, limit)

\* A variant that rounds the share to the nearest integer.
calculate_batch_token_limit_rounded(batch_size_bytes, size, limit) ==
    IF size <= 0 THEN limit \div 10
    ELSE Max((2 * batch_size_bytes * limit + size) \div (2 * size), minimum_limit)

calculate_batch_token_limit(batch_size_bytes, total_codebase_size, max_token_limit) ==
    IF total_codebase_size <= 0
    THEN max_token_limit \div 10
    ELSE Max(IntOfProportion(batch_size_bytes, total_codebase_size, max_token_limit),
             minimum_limit)


(***************************************************************************)
(* Strings.  A path is a sequence of components (<<"r", "build", "app.log">>*)
(* is /r/build/app.log); a pattern is a string.  fnmatch works on          *)
(* characters, so Chars gives the characters of each string of the model.  *)
(***************************************************************************)
Chars(s) ==
    CASE s = "r" -> <<"r">>
      [] s = "a.py" -> <<"a", ".", "p", "y">>
      [] s = "app.log" -> <<"a", "p", "p", ".", "l", "o", "g">>
      [] s = "keep.log" -> <<"k", "e", "e", "p", ".", "l", "o", "g">>
      [] s = "i.png" -> <<"i", ".", "p", "n", "g">>
      [] s = "build" -> <<"b", "u", "i", "l", "d">>
      [] s = "*.log" -> <<"*", ".", "l", "o", "g">>
      [] s = "!keep.log" -> <<"!", "k", "e", "e", "p", ".", "l", "o", "g">>
      [] s = "?.py" -> <<"?", ".", "p", "y">>
      [] s = "!app.log" -> <<"!", "a", "p", "p", ".", "l", "o", "g">>
      [] s = "# logs" -> <<"#", " ", "l", "o", "g", "s">>
      [] s = "" -> <<>>
      [] s = "src" -> <<"s", "r", "c">>
      [] s = "lib" -> <<"l", "i", "b">>

\* os.path.join / the "/"-separated text of a path, as characters.
RECURSIVE PathChars(_)
PathChars(path) ==
    IF path = <<>> THEN <<>>
    ELSE IF Len(path) = 1 THEN Chars(path[1])
    ELSE Chars(path[1]) \o <<"/">> \o PathChars(Tail(path))

IsPrefix(a, b) == Len(a) <= Len(b) /\ SubSeq(b, 1, Len(a)) = a

\* os.path.relpath(file_path, root_path) for a path under root_path (the walk
\* and the version-control listing both join their names onto the directory).
relpath(file_path, root_path) ==
    IF IsPrefix(root_path, file_path)
    THEN SubSeq(file_path, Len(root_path) + 1, Len(file_path))
    ELSE file_path

\* rel_path.replace('\\', '/')
ReplaceBackslash(chars) ==
    [k \in DOMAIN chars |-> IF chars[k] = "\\" THEN "/" ELSE chars[k]]

(***************************************************************************)
(* fnmatch.fnmatch(name, pat) on POSIX (normcase is the identity): the     *)
(* whole name must match; * matches any run of characters, "/" included,   *)
(* ? matches one character.  The patterns of the model hold no [seq].      *)
(***************************************************************************)
RECURSIVE fnmatch_from(_, _, _, _)
fnmatch_from(name, i, pat, j) ==
    IF j > Len(pat) THEN i > Len(name)
    ELSE IF pat[j] = "*"
         THEN fnmatch_from(name, i, pat, j + 1)
              \/ (i <= Len(name) /\ fnmatch_from(name, i + 1, pat, j))
    ELSE IF pat[j] = "?"
         THEN i <= Len(name) /\ fnmatch_from(name, i + 1, pat, j + 1)
    ELSE i <= Len(name) /\ name[i] = pat[j] /\ fnmatch_from(name, i + 1, pat, j + 1)

fnmatch(name, pat) == fnmatch_from(name, 1, pat, 1)

(***************************************************************************)
(* is_ignored                                                              *)
(***************************************************************************)
\* pattern.startswith('!')
Negated(raw) == Chars(raw) # <<>> /\ Chars(raw)[1] = "!"

\* The pattern with a leading "!" stripped: pattern[1:].
Stripped(raw) == IF Negated(raw) THEN Tail(Chars(raw)) ELSE Chars(raw)

\* match = fnmatch(rel_path, pattern) or fnmatch(rel_path, f"*/{pattern}")
PatternMatches(rel_chars, raw) ==
    fnmatch(rel_chars, Stripped(raw)) \/ fnmatch(rel_chars, <<"*", "/">> \o Stripped(raw))

\* The for loop over ignore_patterns from index k on.
RECURSIVE ScanPatterns(_, _, _)
ScanPatterns(rel_chars, ignore_patterns, k) ==
    IF k > Len(ignore_patterns) THEN FALSE
    ELSE IF Chars(ignore_patterns[k]) = <<>>
         THEN ScanPatterns(rel_chars, ignore_patterns, k + 1)
    ELSE IF PatternMatches(rel_chars, ignore_patterns[k])
         THEN ~Negated(ignore_patterns[k])
    ELSE ScanPatterns(rel_chars, ignore_patterns, k + 1)

\* A variant in which the last matching rule decides.
RECURSIVE ScanPatternsLastWins(_, _, _, _)
ScanPatternsLastWins(rel_chars, ignore_patterns, k, verdict) ==
    IF k > Len(ignore_patterns) THEN verdict
    ELSE IF PatternMatches(rel_chars, ignore_patterns[k])
         THEN ScanPatternsLastWins(rel_chars, ignore_patterns, k + 1,
                                   ~Negated(ignore_patterns[k]))
    ELSE ScanPatternsLastWins(rel_chars, ignore_patterns, k + 1, verdict)

is_ignored_last_wins(file_path, root_path, ignore_patterns) ==
    ScanPatternsLastWins(ReplaceBackslash(PathChars(relpath(file_path, root_path))),
                         ignore_patterns, 1, FALSE)

is_ignored(file_path, root_path, ignore_patterns) ==
    IF ignore_patterns = <<>> THEN FALSE
    ELSE ScanPatterns(ReplaceBackslash(PathChars(relpath(file_path, root_path))),
                      ignore_patterns, 1)


(***************************************************************************)
(* JSON values: [t |-> "null"], booleans, numbers, strings (a string that  *)
(* holds a path has the tag "path" and the path as its value), lists and   *)
(* dicts (functions from keys to JSON values).                             *)
(***************************************************************************)
JNull == [t |-> "null"]
JBool(b) == [t |-> "bool", v |-> b]
JNum(n) == [t |-> "num", v |-> n]
JStr(s) == [t |-> "str", v |-> s]
JPath(path) == [t |-> "path", v |-> path]
JList(q) == [t |-> "list", v |-> q]
JDict(f) == [t |-> "dict", v |-> f]

EmptyDict == <<>>

\* d[k] = v on a Python dict.
Put(d, k, v) == [key \in (DOMAIN d) \cup {k} |-> IF key = k THEN v ELSE d[key]]

\* Python's truth value of a JSON value.
Truthy(j) ==
    CASE j.t = "null" -> FALSE
      [] j.t = "bool" -> j.v
      [] j.t = "num"  -> j.v # 0
      [] j.t = "str"  -> j.v # ""
      [] j.t = "path" -> j.v # <<>>
      [] j.t = "list" -> j.v # <<>>
      [] j.t = "dict" -> DOMAIN j.v # {}

\* The filter of both comprehensions: v and v != {} and v != [] and v != "".
KeptValue(j) == Truthy(j)

RECURSIVE clean_empty_values(_)
clean_empty_values(data) ==
    IF data.t = "dict"
    THEN LET kept == {k \in DOMAIN data.v : KeptValue(clean_empty_values(data.v[k]))}
         IN  JDict([k \in kept |-> clean_empty_values(data.v[k])])
    ELSE IF data.t = "list"
    THEN LET cleaned == [k \in DOMAIN data.v |-> clean_empty_values(data.v[k])]
         IN  JList(SelectSeq(cleaned, KeptValue))
    ELSE data

(***************************************************************************)
(* The files of the target directory /r, in the order os.walk yields them, *)
(* and what the file system says of each.                                  *)
(***************************************************************************)
Directory == <<"r">>

A_py     == Directory \o <<"a.py">>
App_log  == Directory \o <<"app.log">>
I_png    == Directory \o <<"i.png">>
Keep_log == Directory \o <<"keep.log">>

WalkFiles == <<A_py, App_log, I_png, Keep_log>>

\* os.path.exists: every file of the directory stays in place during the run.
Exists(file_path) == \E k \in DOMAIN WalkFiles : WalkFiles[k] = file_path

\* Whether open(..., encoding='utf-8').read(1024) decodes.
DecodesAsUtf8(file_path) == file_path # I_png

\* mimetypes.guess_type(path) gives a text/ type.
MimeIsText(file_path) == FALSE

DEFAULT_TEXT_EXTENSIONS ==
    { <<".", "p", "y">>, <<".", "j", "s">>, <<".", "t", "s">>,
      <<".", "h", "t", "m", "l">>, <<".", "c", "s", "s">>,
      <<".", "j", "s", "o", "n">>, <<".", "m", "d">>, <<".", "t", "x", "t">>,
      <<".", "j", "s", "x">>, <<".", "t", "s", "x">>, <<".", "v", "u", "e">>,
      <<".", "y", "m", "l">>, <<".", "y", "a", "m", "l">>,
      <<".", "t", "o", "m", "l">>, <<".", "i", "n", "i">>,
      <<".", "c", "f", "g">>, <<".", "s", "h">>, <<".", "b", "a", "s", "h">>,
      <<".", "c">>, <<".", "c", "p", "p">>, <<".", "h">>,
      <<".", "h", "p", "p">>, <<".", "j", "a", "v", "a">>, <<".", "g", "o">>,
      <<".", "r", "b">>, <<".", "p", "h", "p">>,
      <<".", "s", "w", "i", "f", "t">>, <<".", "r", "s">>,
      <<".", "s", "c", "a", "l", "a">>, <<".", "s", "q", "l">>,
      <<".", "x", "m", "l">> }

\* The index of the last "." of chars after index 1, or 0: os.path.splitext
\* leaves a leading dot to the root.
LastDot(chars) ==
    LET dots == {k \in 2..Len(chars) : chars[k] = "."}
    IN  IF dots = {} THEN 0 ELSE CHOOSE k \in dots : \A j \in dots : j <= k

\* os.path.splitext(path)[1] of the last component.
splitext_ext(file_path) ==
    LET chars == Chars(file_path[Len(file_path)])
    IN  IF LastDot(chars) = 0 THEN <<>> ELSE SubSeq(chars, LastDot(chars), Len(chars))

is_text_file(file_path) ==
    IF ~Exists(file_path) THEN FALSE
    ELSE IF splitext_ext(file_path) \in DEFAULT_TEXT_EXTENSIONS THEN TRUE
    ELSE IF MimeIsText(file_path) THEN TRUE
    ELSE DecodesAsUtf8(file_path)

(***************************************************************************)
(* State.                                                                  *)
(***************************************************************************)
VARIABLES
    \* one call of calculate_batch_token_limit: its arguments and result
    bt_pc, bt_batch_size_bytes, bt_total_codebase_size, bt_max_token_limit, bt_result,
    \* one call of is_ignored: its arguments and result
    ig_pc, ig_file_path, ig_patterns, ig_result,
    \* process_directory: where it is, and an uncaught exception
    pc, exception,
    \* its arguments and what it finds in its environment
    use_git, git_listing, ignore_patterns, verbosity, batch_size, max_token_limit,
    size_of,
    \* its locals
    all_files, file_tree, included_files, ignored_files, binary_files,
    total_codebase_size, output_data, i, batch_token_limit, batch_analysis,
    \* the output file, and how often something else rewrote it
    disk, ext_mods,
    \* history: the writes of the output file completed so far, and the budgets
    \* given to the batches so far (recorded by SpecAlloc)
    writes_done, budgets,
    \* one call of batch_summarize_files: where it is, its loop variables, the
    \* outcomes of the calls of the service made so far, the sleeps made so far,
    \* and what it returns
    bs_pc, retry, retry_delay, attempts, sleeps, bs_result,
    \* one call of optimize_json_output: where it is, its verbosity, the input
    \* and output files, its locals and what it returns
    op_pc, op_verbosity, input_file, output_file, original_data, optimized_json_str,
    op_result,
    \* the entry of process_directory: whether the directory exists, whether it
    \* has a .gitignore, the custom ignore file given, and the exit status
    dir_exists, has_gitignore, custom_gitignore, exit_status,
    \* one call of get_file_tree: where it is, its rules, the directories os.walk
    \* has still to yield, the lines put out and the directories listed so far
    tw_pc, tw_patterns, tw_pending, tw_output, tw_visited,
    \* history: the keys of file_analyses in each completed write of the output
    \* file, whether a reload reinitialized the document, and the batches formed
    \* so far (recorded by SpecAlloc)
    persisted, reinitialized, batches

bt_vars == <<bt_pc, bt_batch_size_bytes, bt_total_codebase_size, bt_max_token_limit,
             bt_result>>
ig_vars == <<ig_pc, ig_file_path, ig_patterns, ig_result>>
config_vars == <<use_git, git_listing, ignore_patterns, verbosity, batch_size,
                 max_token_limit, size_of>>
discovery_vars == <<all_files, file_tree, included_files, ignored_files, binary_files>>
loop_vars == <<total_codebase_size, output_data, i, batch_token_limit, batch_analysis>>
run_vars == <<pc, exception, config_vars, discovery_vars, loop_vars, disk, ext_mods,
              writes_done, budgets>>
bs_vars == <<bs_pc, retry, retry_delay, attempts, sleeps, bs_result>>
op_vars == <<op_pc, op_verbosity, input_file, output_file, original_data,
             optimized_json_str, op_result>>
en_vars == <<dir_exists, has_gitignore, custom_gitignore, exit_status>>
tw_vars == <<tw_pc, tw_patterns, tw_pending, tw_output, tw_visited>>
aux_vars == <<bs_vars, op_vars, en_vars, tw_vars>>
hist_vars == <<persisted, reinitialized, batches>>
vars == <<bt_vars, ig_vars, run_vars, aux_vars, hist_vars>>

(***************************************************************************)
(* Bounds of the model.                                                    *)
(***************************************************************************)
MaxBytes == 10
MaxRules == 2
MaxBatchSize == 2
MaxExternal == 1

(***************************************************************************)
(* Program constants.                                                      *)
(***************************************************************************)
VERBOSITY_QUIET == 0
VERBOSITY_NORMAL == 1
VERBOSITY_VERBOSE == 2
DEFAULT_MAX_TOKEN_LIMIT == 50000

(***************************************************************************)
(* Sizes, batches and the listing of the directory.                        *)
(***************************************************************************)
Min(a, b) == IF a <= b THEN a ELSE b

RECURSIVE SumSizes(_, _, _)
SumSizes(files, sizes, k) ==
    IF k > Len(files) THEN 0
    ELSE (IF Exists(files[k]) THEN sizes[files[k]] ELSE 0) + SumSizes(files, sizes, k + 1)

calculate_batch_size_bytes(batch_files, sizes) == SumSizes(batch_files, sizes, 1)

calculate_total_codebase_size(files, sizes) == SumSizes(files, sizes, 1)

\* A variant whose slices run one element further.
SliceOneMore(files, offset, size) ==
    SubSeq(files, offset + 1, Min(offset + size + 1, Len(files)))

\* included_files[offset : offset + size]
Slice(files, offset, size) == SubSeq(files, offset + 1, Min(offset + size, Len(files)))

\* get_file_tree on the directory of the model, which has no subdirectory: the
\* names of the files that no rule ignores, in sorted order.
get_file_tree(directory, patterns) ==
    LET Visible(f) == ~is_ignored(f, directory, patterns)
    IN  [mode |-> "walk", entries |-> SelectSeq(WalkFiles, Visible)]

\* get_git_file_tree when the listing succeeded: the listed paths.
get_git_file_tree(listing) == [mode |-> "git", entries |-> listing]

(***************************************************************************)
(* The aggregate document and the output file.                             *)
(***************************************************************************)
Absent == [kind |-> "absent"]
\* An output file that json.load cannot parse: truncated by open(..., 'w') and
\* not yet written in full, or overwritten with something else.
Unparseable == [kind |-> "unparseable"]
OnDisk(doc) == [kind |-> "doc", doc |-> doc]

\* The document of lines 933-944 and 987-998.
Template ==
    [ metadata |->
        [ generated_at |-> "timestamp",
          total_files |-> Len(included_files),
          directory |-> Directory,
          completion_status |-> "in_progress",
          total_codebase_size_bytes |-> total_codebase_size,
          max_token_limit |-> max_token_limit ],
      file_tree |-> file_tree,
      file_analyses |-> EmptyDict ]

\* What the locals hold once the process is gone.
NoData == EmptyDict
NoResponse == [kind |-> "none", has_files |-> FALSE, files |-> JNull]
NoText == [syntax |-> "none", doc |-> JNull, compact |-> FALSE]

(***************************************************************************)
(* The text the external call returns, by what json.loads makes of it.     *)
(***************************************************************************)
Response(kind, has_files, files) == [kind |-> kind, has_files |-> has_files, files |-> files]

GoodAnalysis == JDict([file_purpose |-> JStr("x")])
PrunableAnalysis == JDict([dependencies |-> JList(<<>>), classes |-> JNull])

\* file_paths of batch_summarize_files: the path relative to the grandparent.
BatchRel(file_path) ==
    IF Len(file_path) <= 2 THEN file_path
    ELSE SubSeq(file_path, Len(file_path) - 1, Len(file_path))

\* The error payload of lines 641-649.
error_json(batch) ==
    LET keys == {BatchRel(batch[k]) : k \in DOMAIN batch}
    IN  Response("object", TRUE,
            JDict([key \in keys |->
                JDict([ error |-> JStr("Analysis failed after 3 attempts"),
                        file_path |-> JPath(key) ])]))

FilesMappings(batch) ==
    LET rels == {relpath(batch[k], Directory) : k \in DOMAIN batch}
    IN  { [key \in rels |-> GoodAnalysis],
          [key \in {relpath(batch[1], Directory)} |-> GoodAnalysis],
          [key \in rels |-> PrunableAnalysis],
          EmptyDict }

\* What the service may answer for a batch.
ApiResponses(batch) ==
    { Response("notjson", FALSE, JNull),
      Response("number", FALSE, JNull),
      Response("string", TRUE, JNull),
      Response("array", FALSE, JNull),
      Response("object", FALSE, JNull),
      Response("object", TRUE, JList(<<>>)) }
    \cup { Response("object", TRUE, JDict(m)) : m \in FilesMappings(batch) }

(***************************************************************************)
(* The merge of lines 1000-1035.  The result is [ok |-> TRUE, data |-> the *)
(* document] or [ok |-> FALSE, exc |-> the exception that leaves the try]. *)
(***************************************************************************)
Ok(data) == [ok |-> TRUE, data |-> data, exc |-> "none"]
Raises(exc) == [ok |-> FALSE, data |-> NoData, exc |-> exc]

ErrorEntry(raw) ==
    JDict([error |-> JStr("Failed to parse analysis"), raw_response |-> raw])

\* A variant that stores an entry for the first file of the batch only.
StoreErrorsFirstOnly(analyses, batch, raw, k) ==
    IF batch = <<>> THEN analyses
    ELSE Put(analyses, relpath(batch[1], Directory), ErrorEntry(raw))

\* The two loops `for file_path in batch` that store an error entry per file.
RECURSIVE StoreErrors(_, _, _, _)
StoreErrors(analyses, batch, raw, k) ==
    IF k > Len(batch) THEN analyses
    ELSE StoreErrors(Put(analyses, relpath(batch[k], Directory), ErrorEntry(raw)),
                     batch, raw, k + 1)

\* A variant that keeps only the entries of the batch at hand.
StoreCleanedReplacing(analyses, files) ==
    LET kept == {key \in DOMAIN files : Truthy(clean_empty_values(files[key]))}
    IN  [key \in kept |-> clean_empty_values(files[key])]

\* The loop over batch_data["files"].items().
StoreCleaned(analyses, files) ==
    LET kept == {key \in DOMAIN files : Truthy(clean_empty_values(files[key]))}
    IN  [key \in (DOMAIN analyses) \cup kept |->
            IF key \in kept THEN clean_empty_values(files[key]) ELSE analyses[key]]

\* Lines 1023-1026.
UpdateProgress(data, offset) ==
    LET md == data.metadata
        m1 == Put(md, "completed_batches", (offset \div batch_size) + 1)
        m2 == Put(m1, "total_batches",
                  (Len(included_files) + batch_size - 1) \div batch_size)
        m3 == Put(m2, "files_analyzed", Cardinality(DOMAIN data.file_analyses))
    IN  [data EXCEPT !.metadata = m3]

Has(data, key) == key \in DOMAIN data

MergeErrors(data, batch, raw) ==
    IF batch # <<>> /\ ~Has(data, "file_analyses") THEN Raises("KeyError")
    ELSE Ok([data EXCEPT !.file_analyses = StoreErrors(data.file_analyses, batch, raw, 1)])

MergeFiles(data, files) ==
    IF files.t # "dict" THEN Raises("AttributeError")
    ELSE IF \E key \in DOMAIN files.v : Truthy(clean_empty_values(files.v[key]))
            /\ ~Has(data, "file_analyses")
         THEN Raises("KeyError")
    ELSE IF ~Has(data, "file_analyses") THEN Ok(data)
    ELSE Ok([data EXCEPT !.file_analyses = StoreCleaned(data.file_analyses, files.v)])

WithProgress(merged, offset) ==
    IF ~merged.ok THEN merged
    ELSE IF ~Has(merged.data, "metadata") \/ ~Has(merged.data, "file_analyses")
         THEN Raises("KeyError")
    ELSE Ok(UpdateProgress(merged.data, offset))

Merge(data, batch, response, offset) ==
    IF response.kind = "notjson" THEN MergeErrors(data, batch, response)
    ELSE IF response.kind \in {"number", "null"} THEN Raises("TypeError")
    ELSE IF ~response.has_files
         THEN WithProgress(MergeErrors(data, batch, response), offset)
    ELSE IF response.kind # "object" THEN Raises("TypeError")
    ELSE WithProgress(MergeFiles(data, response.files), offset)

(***************************************************************************)
(* process_directory, step by step.                                        *)
(***************************************************************************)
SizeProfiles ==
    { [f \in {WalkFiles[k] : k \in DOMAIN WalkFiles} |-> 0],
      [f \in {WalkFiles[k] : k \in DOMAIN WalkFiles} |-> IF f = A_py THEN 23 ELSE 5] }

\* What `git ls-files` lists: nothing (no repository, no git, an empty work
\* tree) or the files that git's own ignore rules leave.
GitListings == {<<>>, <<A_py, I_png, Keep_log>>}

PatternLists == {<<>>, <<"*.log">>}

BudgetIdle ==
    /\ bt_pc = "idle"
    /\ bt_batch_size_bytes = 0
    /\ bt_total_codebase_size = 0
    /\ bt_max_token_limit = 0
    /\ bt_result = 0

IgnoreIdle ==
    /\ ig_pc = "idle"
    /\ ig_file_path = <<>>
    /\ ig_patterns = <<>>
    /\ ig_result = FALSE

BatchCallIdle ==
    /\ bs_pc = "idle"
    /\ retry = 0
    /\ retry_delay = 0
    /\ attempts = <<>>
    /\ sleeps = <<>>
    /\ bs_result = NoResponse

OptimizeIdle ==
    /\ op_pc = "idle"
    /\ op_verbosity = VERBOSITY_NORMAL
    /\ input_file = Absent
    /\ output_file = Absent
    /\ original_data = JNull
    /\ optimized_json_str = NoText
    /\ op_result = "none"

\* The directory exists, has no .gitignore of its own and no custom ignore
\* file is given.
EntryIdle ==
    /\ dir_exists = TRUE
    /\ has_gitignore = FALSE
    /\ custom_gitignore = "none"
    /\ exit_status = 0

TreeIdle ==
    /\ tw_pc = "idle"
    /\ tw_patterns = <<>>
    /\ tw_pending = <<>>
    /\ tw_output = <<>>
    /\ tw_visited = {}

AuxIdle == BatchCallIdle /\ OptimizeIdle /\ EntryIdle /\ TreeIdle

\* Nothing written, reinitialized or formed yet.
HistIdle ==
    /\ persisted = <<>>
    /\ reinitialized = FALSE
    /\ batches = <<>>

\* After the initial write of a run.
HistAfterInitialWrite ==
    /\ persisted = <<{}>>
    /\ reinitialized = FALSE
    /\ batches = <<>>

LocalsAtEntry ==
    /\ all_files = <<>>
    /\ file_tree = [mode |-> "none", entries |-> <<>>]
    /\ included_files = <<>>
    /\ ignored_files = <<>>
    /\ binary_files = <<>>
    /\ total_codebase_size = 0
    /\ output_data = NoData
    /\ i = 0
    /\ batch_token_limit = 0
    /\ batch_analysis = NoResponse

RunIdle ==
    /\ pc = "idle"
    /\ exception = "none"
    /\ use_git = FALSE
    /\ git_listing = <<>>
    /\ ignore_patterns = <<>>
    /\ verbosity = VERBOSITY_NORMAL
    /\ batch_size = 1
    /\ max_token_limit = 0
    /\ size_of = <<>>
    /\ LocalsAtEntry
    /\ disk = Absent
    /\ ext_mods = 0
    /\ writes_done = 0
    /\ budgets = <<>>

Init ==
    /\ pc = "discover"
    /\ exception = "none"
    /\ use_git \in BOOLEAN
    /\ git_listing \in (IF use_git THEN GitListings ELSE {<<>>})
    /\ ignore_patterns \in PatternLists
    /\ verbosity \in {VERBOSITY_QUIET, VERBOSITY_NORMAL, VERBOSITY_VERBOSE}
    /\ batch_size \in 1..MaxBatchSize
    /\ max_token_limit = DEFAULT_MAX_TOKEN_LIMIT
    /\ size_of \in SizeProfiles
    /\ LocalsAtEntry
    /\ disk = Absent
    /\ ext_mods = 0
    /\ writes_done = 0
    /\ budgets = <<>>
    /\ BudgetIdle
    /\ IgnoreIdle
    /\ AuxIdle
    /\ HistIdle

\* The process is gone: an uncaught exception or a kill.  Its locals go with it.
Gone(how, exc) ==
    /\ pc' = how
    /\ exception' = exc
    /\ output_data' = NoData
    /\ batch_analysis' = NoResponse
    /\ i' = 0
    /\ batch_token_limit' = 0

\* Lines 842-875.
Discover ==
    /\ pc = "discover"
    /\ IF use_git /\ git_listing # <<>>
       THEN /\ all_files' = git_listing
            /\ file_tree' = get_git_file_tree(git_listing)
       ELSE /\ all_files' = WalkFiles
            /\ file_tree' = get_file_tree(Directory, ignore_patterns)
    /\ pc' = "filter"
    /\ UNCHANGED <<exception, config_vars, included_files, ignored_files, binary_files,
                   loop_vars, disk, ext_mods, bt_vars, ig_vars, budgets>>
    /\ UNCHANGED <<writes_done, aux_vars, hist_vars>>

\* The test of line 890, taken as a listing from version control.
TakenAsGitListing(files) ==
    use_git /\ files # <<>> /\ Len(files) > 0 /\ IsPrefix(Directory, files[1])

Classify(file_path, files, patterns) ==
    IF TakenAsGitListing(files)
    THEN IF is_text_file(file_path) THEN "included" ELSE "binary"
    ELSE IF is_ignored(file_path, Directory, patterns) THEN "ignored"
    ELSE IF is_text_file(file_path) THEN "included"
    ELSE "binary"

\* Lines 881-902.
Filter ==
    /\ pc = "filter"
    /\ LET Included(f) == Classify(f, all_files, ignore_patterns) = "included"
           Ignored(f)  == Classify(f, all_files, ignore_patterns) = "ignored"
           Binary(f)   == Classify(f, all_files, ignore_patterns) = "binary"
       IN  /\ included_files' = SelectSeq(all_files, Included)
           /\ ignored_files' = SelectSeq(all_files, Ignored)
           /\ binary_files' = SelectSeq(all_files, Binary)
    /\ pc' = "initial_open"
    /\ UNCHANGED <<exception, config_vars, all_files, file_tree, loop_vars, disk,
                   ext_mods, bt_vars, ig_vars, budgets>>
    /\ UNCHANGED <<writes_done, aux_vars, hist_vars>>

\* A variant that leaves the loop after its first pass.
LoopFromFirstBatchOnly(offset) ==
    IF offset = 0 /\ 0 < Len(included_files) THEN "analyze" ELSE "finalize"

\* The keys of file_analyses of a document json.dump writes.
AnalysisKeys(data) ==
    IF Has(data, "file_analyses") THEN DOMAIN data.file_analyses ELSE {}

\* Where the for loop of line 955 goes from offset.
LoopFrom(offset) == IF offset < Len(included_files) THEN "analyze" ELSE "finalize"

\* A variant that takes up the document the output file holds.
InitialOpenKeepsExisting ==
    /\ pc = "initial_open"
    /\ total_codebase_size' = calculate_total_codebase_size(included_files, size_of)
    /\ output_data' = IF disk.kind = "doc" THEN disk.doc
                       ELSE [Template EXCEPT
            !.metadata.total_codebase_size_bytes = total_codebase_size']
    /\ disk' = Unparseable
    /\ pc' = "initial_dump"
    /\ UNCHANGED <<exception, config_vars, discovery_vars, i, batch_token_limit,
                   batch_analysis, ext_mods, bt_vars, ig_vars, budgets>>
    /\ UNCHANGED <<writes_done, aux_vars, hist_vars>>

\* Lines 924-947: the sizes, the initial document, and open(output_file, 'w'),
\* which truncates the file.
InitialOpen ==
    /\ pc = "initial_open"
    /\ total_codebase_size' = calculate_total_codebase_size(included_files, size_of)
    /\ output_data' = [Template EXCEPT
            !.metadata.total_codebase_size_bytes = total_codebase_size']
    /\ disk' = Unparseable
    /\ pc' = "initial_dump"
    /\ UNCHANGED <<exception, config_vars, discovery_vars, i, batch_token_limit,
                   batch_analysis, ext_mods, bt_vars, ig_vars, budgets>>
    /\ UNCHANGED <<writes_done, aux_vars, hist_vars>>

\* Line 948: json.dump and the close of the file.
InitialDump ==
    /\ pc = "initial_dump"
    /\ disk' = OnDisk(output_data)
    /\ pc' = LoopFrom(0)
    /\ UNCHANGED <<exception, config_vars, discovery_vars, loop_vars, ext_mods,
                   bt_vars, ig_vars, budgets>>
    /\ writes_done' = writes_done + 1
    /\ persisted' = Append(persisted, AnalysisKeys(output_data))
    /\ UNCHANGED <<aux_vars, reinitialized, batches>>

CurrentBatch == Slice(included_files, i, batch_size)

\* Lines 956-978: the budget of the batch and the external call.
Analyze ==
    /\ pc = "analyze"
    /\ LET batch_size_bytes == calculate_batch_size_bytes(CurrentBatch, size_of)
       IN  IF verbosity >= VERBOSITY_VERBOSE /\ total_codebase_size = 0
           THEN \* line 968 divides by total_codebase_size
                /\ Gone("raised", "ZeroDivisionError")
                /\ UNCHANGED <<total_codebase_size, disk>>
           ELSE /\ batch_token_limit' = calculate_batch_token_limit(batch_size_bytes,
                                            total_codebase_size, max_token_limit)
                /\ batch_analysis' \in ApiResponses(CurrentBatch)
                                           \cup {error_json(CurrentBatch)}
                /\ pc' = "reload"
                /\ UNCHANGED <<exception, total_codebase_size, output_data, i, disk>>
    /\ UNCHANGED <<config_vars, discovery_vars, ext_mods, bt_vars, ig_vars, budgets>>
    /\ UNCHANGED <<writes_done, aux_vars, hist_vars>>

ExternalStates == {Absent, Unparseable, OnDisk(EmptyDict)}

\* Something else rewrites or removes the output file between two batches.
ExternalModify ==
    /\ pc = "reload"
    /\ ext_mods < MaxExternal
    /\ disk' \in ExternalStates \ {disk}
    /\ ext_mods' = ext_mods + 1
    /\ UNCHANGED <<pc, exception, config_vars, discovery_vars, loop_vars, bt_vars,
                   ig_vars, budgets>>
    /\ UNCHANGED <<writes_done, aux_vars, hist_vars>>

\* Lines 980-998.
Reload ==
    /\ pc = "reload"
    /\ output_data' = IF disk.kind = "doc" THEN disk.doc ELSE Template
    /\ pc' = "merge"
    /\ UNCHANGED <<exception, config_vars, discovery_vars, total_codebase_size, i,
                   batch_token_limit, batch_analysis, disk, ext_mods, bt_vars, ig_vars, budgets>>
    /\ reinitialized' = (reinitialized \/ disk.kind # "doc")
    /\ UNCHANGED <<writes_done, aux_vars, persisted, batches>>

\* Lines 1000-1035.
MergeBatch ==
    /\ pc = "merge"
    /\ LET merged == Merge(output_data, CurrentBatch, batch_analysis, i)
       IN  IF merged.ok
           THEN /\ output_data' = merged.data
                /\ pc' = "persist_open"
                /\ UNCHANGED <<exception, i, batch_token_limit, batch_analysis>>
           ELSE Gone("raised", merged.exc)
    /\ UNCHANGED <<config_vars, discovery_vars, total_codebase_size, disk, ext_mods,
                   bt_vars, ig_vars, budgets>>
    /\ UNCHANGED <<writes_done, aux_vars, hist_vars>>

\* Line 1038: open(output_file, 'w') truncates the file.
PersistOpen ==
    /\ pc = "persist_open"
    /\ disk' = Unparseable
    /\ pc' = "persist_dump"
    /\ UNCHANGED <<exception, config_vars, discovery_vars, loop_vars, ext_mods,
                   bt_vars, ig_vars, budgets>>
    /\ UNCHANGED <<writes_done, aux_vars, hist_vars>>

\* Lines 1039-1049: json.dump, the close, and the step of the loop.
PersistDump ==
    /\ pc = "persist_dump"
    /\ disk' = OnDisk(output_data)
    /\ i' = i + batch_size
    /\ pc' = LoopFrom(i + batch_size)
    /\ UNCHANGED <<exception, config_vars, discovery_vars, total_codebase_size,
                   output_data, batch_token_limit, batch_analysis, ext_mods, bt_vars,
                   ig_vars, budgets>>
    /\ writes_done' = writes_done + 1
    /\ persisted' = Append(persisted, AnalysisKeys(output_data))
    /\ UNCHANGED <<aux_vars, reinitialized, batches>>

\* Lines 1052-1059: the reload for the final status; every exception is caught.
FinalizeOpen ==
    /\ pc = "finalize"
    /\ IF disk.kind = "doc" /\ Has(disk.doc, "metadata")
       THEN /\ output_data' = [disk.doc EXCEPT !.metadata =
                    Put(Put(disk.doc.metadata, "completion_status", "completed"),
                        "completion_time", "timestamp")]
            /\ disk' = Unparseable
            /\ pc' = "final_dump"
       ELSE /\ output_data' = IF disk.kind = "doc" THEN disk.doc ELSE output_data
            /\ disk' = disk
            /\ pc' = "done"
    /\ UNCHANGED <<exception, config_vars, discovery_vars, total_codebase_size, i,
                   batch_token_limit, batch_analysis, ext_mods, bt_vars, ig_vars, budgets>>
    /\ UNCHANGED <<writes_done, aux_vars, hist_vars>>

\* Line 1060.
FinalizeDump ==
    /\ pc = "final_dump"
    /\ disk' = OnDisk(output_data)
    /\ pc' = "done"
    /\ UNCHANGED <<exception, config_vars, discovery_vars, loop_vars, ext_mods,
                   bt_vars, ig_vars, budgets>>
    /\ writes_done' = writes_done + 1
    /\ persisted' = Append(persisted, AnalysisKeys(output_data))
    /\ UNCHANGED <<aux_vars, reinitialized, batches>>

\* The process is killed.
Terminate ==
    /\ pc \notin {"idle", "done", "raised", "terminated"}
    /\ Gone("terminated", "none")
    /\ UNCHANGED <<config_vars, discovery_vars, total_codebase_size, disk, ext_mods,
                   bt_vars, ig_vars, budgets>>
    /\ UNCHANGED <<writes_done, aux_vars, hist_vars>>

Next ==
    \/ Discover
    \/ Filter
    \/ InitialOpen
    \/ InitialDump
    \/ Analyze
    \/ ExternalModify
    \/ Reload
    \/ MergeBatch
    \/ PersistOpen
    \/ PersistDump
    \/ FinalizeOpen
    \/ FinalizeDump
    \/ Terminate

Spec == Init /\ [][Next]_vars

(***************************************************************************)
(* The budgets of the batches of one run: lines 955-965 of the loop, on    *)
(* drawn file sizes, batch sizes and ceilings.                             *)
(***************************************************************************)
AllocFileLists == {<<>>, <<A_py>>, <<A_py, App_log>>, <<A_py, App_log, Keep_log>>}
AllocSizes == {0, 1, 5, 23}
AllocCeilings == {0, 1000, 2000, DEFAULT_MAX_TOKEN_LIMIT}

AllocInit ==
    /\ included_files \in AllocFileLists
    /\ pc = (IF 0 < Len(included_files) THEN "budget" ELSE "budget_done")
    /\ exception = "none"
    /\ use_git = FALSE
    /\ git_listing = <<>>
    /\ ignore_patterns = <<>>
    /\ verbosity = VERBOSITY_NORMAL
    /\ batch_size \in 1..MaxBatchSize
    /\ max_token_limit \in AllocCeilings
    /\ size_of \in [{included_files[k] : k \in DOMAIN included_files} -> AllocSizes]
    /\ all_files = included_files
    /\ file_tree = get_file_tree(Directory, <<>>)
    /\ ignored_files = <<>>
    /\ binary_files = <<>>
    /\ total_codebase_size = calculate_total_codebase_size(included_files, size_of)
    /\ output_data = NoData
    /\ i = 0
    /\ batch_token_limit = 0
    /\ batch_analysis = NoResponse
    /\ disk = Absent
    /\ ext_mods = 0
    /\ writes_done = 0
    /\ budgets = <<>>
    /\ BudgetIdle
    /\ IgnoreIdle
    /\ AuxIdle
    /\ HistIdle

\* Lines 955-965 of one iteration, and the step of the loop.
AllocBatch ==
    /\ pc = "budget"
    /\ batch_token_limit' = calculate_batch_token_limit(
            calculate_batch_size_bytes(CurrentBatch, size_of),
            total_codebase_size, max_token_limit)
    /\ budgets' = Append(budgets, batch_token_limit')
    /\ i' = i + batch_size
    /\ pc' = IF i + batch_size < Len(included_files) THEN "budget" ELSE "budget_done"
    /\ UNCHANGED <<exception, config_vars, discovery_vars, total_codebase_size,
                   output_data, batch_analysis, disk, ext_mods, writes_done, bt_vars,
                   ig_vars, aux_vars, persisted, reinitialized>>
    /\ batches' = Append(batches, CurrentBatch)

AllocNext == AllocBatch

SpecAlloc == AllocInit /\ [][AllocNext]_vars

(***************************************************************************)
(* calculate_batch_token_limit on drawn arguments.                         *)
(***************************************************************************)
ByteValues == (0..MaxBytes) \cup {23, 40, 500, 1000}
CeilingValues == {0, 1, 499, 500, 2000, 3000, 50000}

BudgetInit ==
    /\ bt_pc = "call"
    /\ bt_batch_size_bytes \in ByteValues
    /\ bt_total_codebase_size \in ByteValues
    /\ bt_max_token_limit \in CeilingValues
    /\ bt_result = 0
    /\ IgnoreIdle
    /\ RunIdle
    /\ AuxIdle
    /\ HistIdle

BudgetCall ==
    /\ bt_pc = "call"
    /\ bt_result' = calculate_batch_token_limit(bt_batch_size_bytes,
                        bt_total_codebase_size, bt_max_token_limit)
    /\ bt_pc' = "ret"
    /\ UNCHANGED <<bt_batch_size_bytes, bt_total_codebase_size, bt_max_token_limit>>
    /\ UNCHANGED <<ig_vars, run_vars, aux_vars, hist_vars>>

BudgetNext == BudgetCall

SpecBudget == BudgetInit /\ [][BudgetNext]_vars

(***************************************************************************)
(* is_ignored on drawn arguments.                                          *)
(***************************************************************************)
PatternPool == {"*.log", "!keep.log", "build", "?.py", "!app.log"}

RECURSIVE SeqsUpTo(_, _)
SeqsUpTo(S, n) ==
    IF n = 0 THEN {<<>>}
    ELSE LET shorter == SeqsUpTo(S, n - 1)
         IN  shorter \cup {Append(q, e) : q \in shorter, e \in S}

RelPathPool ==
    { <<"keep.log">>, <<"app.log">>, <<"a.py">>, <<"i.png">>, <<"build">>,
      <<"build", "app.log">>, <<"build", "keep.log">> }

IgnoreInit ==
    /\ ig_pc = "call"
    /\ ig_file_path \in {Directory \o rel : rel \in RelPathPool}
    /\ ig_patterns \in SeqsUpTo(PatternPool, MaxRules)
    /\ ig_result = FALSE
    /\ BudgetIdle
    /\ RunIdle
    /\ AuxIdle
    /\ HistIdle

IgnoreCall ==
    /\ ig_pc = "call"
    /\ ig_result' = is_ignored(ig_file_path, Directory, ig_patterns)
    /\ ig_pc' = "ret"
    /\ UNCHANGED <<ig_file_path, ig_patterns>>
    /\ UNCHANGED <<bt_vars, run_vars, aux_vars, hist_vars>>

IgnoreNext == IgnoreCall

SpecIgnore == IgnoreInit /\ [][IgnoreNext]_vars

(***************************************************************************)
(* batch_summarize_files: the retry loop of lines 618-655 on a drawn       *)
(* batch, followed by the reload and the merge of its result into the      *)
(* document of a run whose files are that batch.                           *)
(***************************************************************************)
max_retries == 3

X_u_a_py == Directory \o <<"x", "u", "a.py">>
Y_u_a_py == Directory \o <<"y", "u", "a.py">>

RetryBatches ==
    { <<A_py>>, <<App_log>>, <<A_py, App_log>>, <<X_u_a_py>>,
      <<X_u_a_py, A_py>>, <<X_u_a_py, Y_u_a_py>> }

RetryInit ==
    /\ bs_pc = "call"
    /\ retry = 0
    /\ retry_delay = 5
    /\ attempts = <<>>
    /\ sleeps = <<>>
    /\ bs_result = NoResponse
    /\ pc = "in_call"
    /\ exception = "none"
    /\ use_git = FALSE
    /\ git_listing = <<>>
    /\ ignore_patterns = <<>>
    /\ verbosity = VERBOSITY_NORMAL
    /\ max_token_limit = DEFAULT_MAX_TOKEN_LIMIT
    /\ included_files \in RetryBatches
    /\ batch_size = Len(included_files)
    /\ size_of = [f \in {included_files[k] : k \in DOMAIN included_files} |-> 5]
    /\ all_files = included_files
    /\ file_tree = [mode |-> "walk", entries |-> included_files]
    /\ ignored_files = <<>>
    /\ binary_files = <<>>
    /\ total_codebase_size = 5 * Len(included_files)
    /\ output_data = Template
    /\ i = 0
    /\ batch_token_limit = DEFAULT_MAX_TOKEN_LIMIT
    /\ batch_analysis = NoResponse
    /\ disk = OnDisk(Template)
    /\ ext_mods = 0
    /\ writes_done = 1
    /\ budgets = <<>>
    /\ BudgetIdle
    /\ IgnoreIdle
    /\ OptimizeIdle
    /\ EntryIdle
    /\ TreeIdle
    /\ HistAfterInitialWrite

\* Lines 621-649: one pass of the loop body up to the return or the sleep.  The
\* call of the service answers with a text or raises.
BatchCall ==
    /\ bs_pc = "call"
    /\ retry < max_retries
    /\ \/ \E response \in ApiResponses(CurrentBatch) :
            /\ attempts' = Append(attempts, [outcome |-> "returned", text |-> response])
            /\ bs_result' = response
            /\ bs_pc' = "ret"
       \/ /\ attempts' = Append(attempts, [outcome |-> "raised", text |-> NoResponse])
          /\ IF retry = max_retries - 1
             THEN /\ bs_result' = error_json(CurrentBatch)
                  /\ bs_pc' = "ret"
             ELSE /\ bs_result' = bs_result
                  /\ bs_pc' = "sleep"
    /\ UNCHANGED <<retry, retry_delay, sleeps>>
    /\ UNCHANGED <<bt_vars, ig_vars, run_vars, op_vars, en_vars, tw_vars, hist_vars>>

\* A variant that waits the same time before every retry.
BatchSleepConstantDelay ==
    /\ bs_pc = "sleep"
    /\ sleeps' = Append(sleeps, retry_delay)
    /\ retry_delay' = retry_delay
    /\ retry' = retry + 1
    /\ bs_pc' = "call"
    /\ UNCHANGED <<attempts, bs_result>>
    /\ UNCHANGED <<bt_vars, ig_vars, run_vars, op_vars, en_vars, tw_vars, hist_vars>>

\* Lines 651-655: the sleep, the doubling of the delay and the next pass.
BatchSleep ==
    /\ bs_pc = "sleep"
    /\ sleeps' = Append(sleeps, retry_delay)
    /\ retry_delay' = retry_delay * 2
    /\ retry' = retry + 1
    /\ bs_pc' = "call"
    /\ UNCHANGED <<attempts, bs_result>>
    /\ UNCHANGED <<bt_vars, ig_vars, run_vars, op_vars, en_vars, tw_vars, hist_vars>>

\* Line 978: the result of the call becomes batch_analysis.
BatchReturn ==
    /\ bs_pc = "ret"
    /\ pc = "in_call"
    /\ batch_analysis' = bs_result
    /\ pc' = "reload"
    /\ bs_pc' = "returned"
    /\ UNCHANGED <<retry, retry_delay, attempts, sleeps, bs_result>>
    /\ UNCHANGED <<exception, config_vars, discovery_vars, total_codebase_size,
                   output_data, i, batch_token_limit, disk, ext_mods, writes_done,
                   budgets, bt_vars, ig_vars, op_vars, en_vars, tw_vars, hist_vars>>

RetryNext ==
    \/ BatchCall
    \/ BatchSleep
    \/ BatchReturn
    \/ Reload
    \/ MergeBatch

SpecRetry == RetryInit /\ [][RetryNext]_vars

(***************************************************************************)
(* The reload and the merge of lines 980-1035 for the first batch of a run *)
(* (the document on disk is the initial one, with no analyses), on drawn   *)
(* batches and drawn texts of the service.                                 *)
(***************************************************************************)
MergeBatches == {<<A_py>>, <<A_py, App_log>>, <<A_py, App_log, Keep_log>>}

\* Analyses a response may hold for a file.
AnalysisPool ==
    { GoodAnalysis,
      PrunableAnalysis,
      JDict([file_purpose |-> JStr("x"), dependencies |-> JList(<<>>), classes |-> JNull]),
      JDict([line_count |-> JNum(0)]),
      JDict([is_test |-> JBool(FALSE)]),
      JDict([file_purpose |-> JStr("x"), line_count |-> JNum(0)]),
      JDict([line_count |-> JNum(1), is_test |-> JBool(TRUE)]),
      JDict([classes |-> JList(<<JDict([name |-> JStr(""), methods |-> JList(<<>>)])>>)]),
      JDict([classes |-> JList(<<JDict([name |-> JStr("C"), methods |-> JList(<<>>)])>>)]),
      JDict([key_functions |-> JList(<<JStr("f"), JStr(""), JNum(0)>>)]),
      JDict(EmptyDict),
      JStr("x") }

\* The texts drawn for a batch: those of ApiResponses, and the objects whose
\* "files" maps the first file, or the first two, to analyses of the pool.
MergeResponses(batch) ==
    ApiResponses(batch)
    \cup { Response("object", TRUE, JDict([key \in {relpath(batch[1], Directory)} |-> a])) :
             a \in AnalysisPool }
    \cup (IF Len(batch) # 2 THEN {}
          ELSE { Response("object", TRUE,
                    JDict([key \in {relpath(batch[1], Directory), relpath(batch[2], Directory)} |->
                             IF key = relpath(batch[1], Directory) THEN a ELSE b])) :
                   a \in AnalysisPool, b \in AnalysisPool })

MergeInit ==
    /\ pc = "reload"
    /\ exception = "none"
    /\ use_git = FALSE
    /\ git_listing = <<>>
    /\ ignore_patterns = <<>>
    /\ verbosity = VERBOSITY_NORMAL
    /\ max_token_limit = DEFAULT_MAX_TOKEN_LIMIT
    /\ included_files \in MergeBatches
    /\ batch_size = Len(included_files)
    /\ size_of = [f \in {included_files[k] : k \in DOMAIN included_files} |-> 5]
    /\ all_files = included_files
    /\ file_tree = [mode |-> "walk", entries |-> included_files]
    /\ ignored_files = <<>>
    /\ binary_files = <<>>
    /\ total_codebase_size = 5 * Len(included_files)
    /\ output_data = Template
    /\ i = 0
    /\ batch_token_limit = DEFAULT_MAX_TOKEN_LIMIT
    /\ batch_analysis \in MergeResponses(included_files)
    /\ disk = OnDisk(Template)
    /\ ext_mods = 0
    /\ writes_done = 1
    /\ budgets = <<>>
    /\ BudgetIdle
    /\ IgnoreIdle
    /\ AuxIdle
    /\ HistAfterInitialWrite

MergeNext ==
    \/ Reload
    \/ MergeBatch

SpecMerge == MergeInit /\ [][MergeNext]_vars

(***************************************************************************)
(* optimize_json_output (lines 657-793).  Documents are JSON values.  The  *)
(* text the service returns is given by the document it renders, whether   *)
(* it is rendered without spaces after "," and ":" (compact) or as         *)
(* json.dumps renders it, and its syntax: "valid"; "trailing_comma", the   *)
(* rendering of an object with a comma before its last brace;              *)
(* "colon_in_string", valid JSON with a string value that has `, word:`    *)
(* in it; "not_json".                                                      *)
(***************************************************************************)
RECURSIVE NumLen(_)
NumLen(n) == IF n < 10 THEN 1 ELSE 1 + NumLen(n \div 10)

\* len(json.dumps(j)) when sep = 2 (", " and ": "), and the length of the
\* rendering without those spaces when sep = 1.
RECURSIVE DumpLen(_, _)
RECURSIVE DictItemsLen(_, _, _)
RECURSIVE ListItemsLen(_, _, _)
DictItemsLen(d, keys, sep) ==
    IF keys = {} THEN 0
    ELSE LET k == CHOOSE key \in keys : TRUE
         IN  Len(k) + 2 + sep + DumpLen(d[k], sep)
               + (IF keys \ {k} = {} THEN 0 ELSE sep)
               + DictItemsLen(d, keys \ {k}, sep)

ListItemsLen(q, k, sep) ==
    IF k > Len(q) THEN 0
    ELSE DumpLen(q[k], sep) + (IF k < Len(q) THEN sep ELSE 0) + ListItemsLen(q, k + 1, sep)

DumpLen(j, sep) ==
    CASE j.t = "null" -> 4
      [] j.t = "bool" -> IF j.v THEN 4 ELSE 5
      [] j.t = "num"  -> NumLen(j.v)
      [] j.t = "str"  -> Len(j.v) + 2
      [] j.t = "list" -> 2 + ListItemsLen(j.v, 1, sep)
      [] j.t = "dict" -> 2 + DictItemsLen(j.v, DOMAIN j.v, sep)

Text(syntax, doc, compact) == [syntax |-> syntax, doc |-> doc, compact |-> compact]

\* len() of a text.
TextLen(text) ==
    DumpLen(text.doc, IF text.compact THEN 1 ELSE 2)
      + (IF text.syntax = "trailing_comma" THEN 1 ELSE 0)

\* Lines 449-472: the comma before a closing brace goes; a word before a colon
\* gets quotes, inside a string value too, which breaks the string.
fix_json_errors(json_str) ==
    CASE json_str.syntax = "trailing_comma" -> [json_str EXCEPT !.syntax = "valid"]
      [] json_str.syntax = "colon_in_string" -> [json_str EXCEPT !.syntax = "not_json"]
      [] OTHER -> json_str

\* Whether json.loads takes the text.
Parses(text) == text.syntax = "valid"

\* The strings of the model in which `key` occurs.
OccursIn(key, s) == s = key \/ s = "metadata file_tree file_analyses"

\* Python's `key in value`: a key of a dict, an element of a list, a part of a
\* string; on the other values it raises TypeError.
InRaises(value) == value.t \in {"null", "bool", "num"}
In(key, value) ==
    CASE value.t = "dict" -> key \in DOMAIN value.v
      [] value.t = "list" -> \E k \in DOMAIN value.v : value.v[k] = JStr(key)
      [] value.t = "str"  -> OccursIn(key, value.v)
      [] OTHER -> FALSE

Aggregate(purpose) ==
    JDict([ metadata |-> JDict([completion_status |-> JStr("completed")]),
            file_tree |-> JStr("a.py"),
            file_analyses |-> JDict("a.py" :> JDict([file_purpose |-> JStr(purpose)])) ])

Originals == {Aggregate("parses the command line"), Aggregate("cli")}

\* What the service may propose for a document.
Proposals(doc) ==
    { doc,
      Aggregate("cli"),
      Aggregate("parses the command line and runs the analysis"),
      JDict([metadata |-> doc.v.metadata, file_tree |-> doc.v.file_tree,
             file_analyses |-> JDict(EmptyDict)]),
      JDict([metadata |-> doc.v.metadata, file_tree |-> doc.v.file_tree]),
      JDict([file_analyses |-> doc.v.file_analyses]),
      JStr("metadata file_tree file_analyses"),
      JList(<<JStr("metadata"), JStr("file_tree"), JStr("file_analyses")>>),
      JList(<<>>),
      JNum(5),
      JNull }

Texts(doc) ==
    { Text("valid", p, c) : p \in Proposals(doc), c \in BOOLEAN }
    \cup { Text(syn, p, c) : syn \in {"trailing_comma", "colon_in_string"},
                             p \in {q \in Proposals(doc) : q.t = "dict"}, c \in BOOLEAN }
    \cup { Text("not_json", JNull, FALSE) }

OptimizeInit ==
    /\ op_pc = "read"
    /\ op_verbosity \in {VERBOSITY_QUIET, VERBOSITY_NORMAL, VERBOSITY_VERBOSE}
    /\ input_file \in {OnDisk(doc) : doc \in Originals} \cup {Absent, Unparseable}
    /\ output_file \in {Absent, OnDisk(Aggregate("an earlier run"))}
    /\ original_data = JNull
    /\ optimized_json_str = NoText
    /\ op_result = "none"
    /\ BudgetIdle
    /\ IgnoreIdle
    /\ RunIdle
    /\ BatchCallIdle
    /\ EntryIdle
    /\ TreeIdle
    /\ HistIdle

\* Lines 680-686: the read of the input file; a failure goes to the handler of
\* line 791.
OptimizeRead ==
    /\ op_pc = "read"
    /\ IF input_file.kind = "doc"
       THEN /\ original_data' = input_file.doc
            /\ op_pc' = "call"
            /\ op_result' = op_result
       ELSE /\ original_data' = original_data
            /\ op_pc' = "ret"
            /\ op_result' = "false"
    /\ UNCHANGED <<op_verbosity, input_file, output_file, optimized_json_str>>
    /\ UNCHANGED <<bt_vars, ig_vars, run_vars, bs_vars, en_vars, tw_vars, hist_vars>>

\* Lines 722-738: the call of the service, which answers with a text or raises;
\* what it raises goes to the handler of line 791.
OptimizeCall ==
    /\ op_pc = "call"
    /\ \/ /\ optimized_json_str' \in Texts(original_data)
          /\ op_pc' = "check"
          /\ op_result' = op_result
       \/ /\ optimized_json_str' = optimized_json_str
          /\ op_pc' = "ret"
          /\ op_result' = "false"
    /\ UNCHANGED <<op_verbosity, input_file, output_file, original_data>>
    /\ UNCHANGED <<bt_vars, ig_vars, run_vars, bs_vars, en_vars, tw_vars, hist_vars>>

\* Lines 741-793 on the text received: what is returned and what is written to
\* the output file ("nothing", "original" or "optimized").
Verdict(text, original, verb) ==
    LET fixed_json_str == fix_json_errors(text)
        optimized_data == fixed_json_str.doc
        optimized_size == TextLen(fixed_json_str)
        original_size  == DumpLen(original, 2)
    IN  IF ~Parses(fixed_json_str)
        THEN [result |-> "false", written |-> "original"]
        ELSE IF verb >= VERBOSITY_VERBOSE /\ optimized_data.t # "dict"
        THEN \* optimized_data.keys() of line 750
             [result |-> "false", written |-> "nothing"]
        ELSE IF optimized_size >= original_size
        THEN [result |-> "false", written |-> "original"]
        ELSE IF InRaises(optimized_data)
        THEN [result |-> "false", written |-> "nothing"]
        ELSE IF \/ ~In("metadata", optimized_data)
                \/ ~In("file_tree", optimized_data)
                \/ ~In("file_analyses", optimized_data)
        THEN [result |-> "false", written |-> "original"]
        ELSE [result |-> "true", written |-> "optimized"]

OptimizeCheck ==
    /\ op_pc = "check"
    /\ LET verdict == Verdict(optimized_json_str, original_data, op_verbosity)
       IN  /\ op_result' = verdict.result
           /\ output_file' =
                CASE verdict.written = "original" -> OnDisk(original_data)
                  [] verdict.written = "optimized" ->
                        OnDisk(fix_json_errors(optimized_json_str).doc)
                  [] OTHER -> output_file
    /\ op_pc' = "ret"
    /\ UNCHANGED <<op_verbosity, input_file, original_data, optimized_json_str>>
    /\ UNCHANGED <<bt_vars, ig_vars, run_vars, bs_vars, en_vars, tw_vars, hist_vars>>

OptimizeNext ==
    \/ OptimizeRead
    \/ OptimizeCall
    \/ OptimizeCheck

SpecOptimize == OptimizeInit /\ [][OptimizeNext]_vars

(***************************************************************************)
(* The entry of process_directory (lines 823-840) on a drawn environment,  *)
(* followed by discovery and the creation of the output file.  The lines   *)
(* of the ignore files carry no surrounding blanks.                        *)
(***************************************************************************)
GitignoreLines == <<"# logs", "", "*.log">>
CustomLines == <<"build">>

\* Lines 182-199.
parse_gitignore(lines) ==
    LET Kept(line) == line # "" /\ Chars(line)[1] # "#"
    IN  SelectSeq(lines, Kept)

EntryInit ==
    /\ pc = "entry"
    /\ exception = "none"
    /\ dir_exists \in BOOLEAN
    /\ has_gitignore \in (IF dir_exists THEN BOOLEAN ELSE {FALSE})
    /\ custom_gitignore \in {"none", "missing", "present"}
    /\ exit_status = 0
    /\ use_git \in BOOLEAN
    /\ git_listing \in (IF use_git /\ dir_exists THEN GitListings ELSE {<<>>})
    /\ ignore_patterns = <<>>
    /\ verbosity \in {VERBOSITY_QUIET, VERBOSITY_NORMAL}
    /\ batch_size \in 1..MaxBatchSize
    /\ max_token_limit = DEFAULT_MAX_TOKEN_LIMIT
    /\ size_of \in SizeProfiles
    /\ LocalsAtEntry
    /\ disk = Absent
    /\ ext_mods = 0
    /\ writes_done = 0
    /\ budgets = <<>>
    /\ BudgetIdle
    /\ IgnoreIdle
    /\ BatchCallIdle
    /\ OptimizeIdle
    /\ TreeIdle
    /\ HistIdle

\* Lines 823-840: sys.exit(1) when the directory is missing; the rules of the
\* directory's own .gitignore when it has one; otherwise those of the custom
\* file, or sys.exit(1) when that file is missing.
Validate ==
    /\ pc = "entry"
    /\ IF ~dir_exists
       THEN /\ pc' = "exited"
            /\ exit_status' = 1
            /\ ignore_patterns' = ignore_patterns
       ELSE IF has_gitignore
       THEN /\ pc' = "discover"
            /\ exit_status' = exit_status
            /\ ignore_patterns' = parse_gitignore(GitignoreLines)
       ELSE IF custom_gitignore = "present"
       THEN /\ pc' = "discover"
            /\ exit_status' = exit_status
            /\ ignore_patterns' = parse_gitignore(CustomLines)
       ELSE IF custom_gitignore = "missing"
       THEN /\ pc' = "exited"
            /\ exit_status' = 1
            /\ ignore_patterns' = ignore_patterns
       ELSE /\ pc' = "discover"
            /\ exit_status' = exit_status
            /\ ignore_patterns' = ignore_patterns
    /\ UNCHANGED <<exception, use_git, git_listing, verbosity, batch_size,
                   max_token_limit, size_of, discovery_vars, loop_vars, disk,
                   ext_mods, writes_done, budgets>>
    /\ UNCHANGED <<dir_exists, has_gitignore, custom_gitignore>>
    /\ UNCHANGED <<bt_vars, ig_vars, bs_vars, op_vars, tw_vars, hist_vars>>

EntryNext ==
    \/ Validate
    \/ Discover
    \/ Filter
    \/ InitialOpen
    \/ InitialDump

SpecEntry == EntryInit /\ [][EntryNext]_vars

(***************************************************************************)
(* A run of process_directory against an output path that holds the        *)
(* document an interrupted earlier run left.                               *)
(***************************************************************************)
LeftoverDocument ==
    [ metadata |->
        [ generated_at |-> "earlier",
          total_files |-> 3,
          directory |-> Directory,
          completion_status |-> "in_progress",
          total_codebase_size_bytes |-> 33,
          max_token_limit |-> DEFAULT_MAX_TOKEN_LIMIT,
          completed_batches |-> 1,
          total_batches |-> 3,
          files_analyzed |-> 1 ],
      file_tree |-> [mode |-> "walk", entries |-> WalkFiles],
      file_analyses |-> (<<"a.py">> :> GoodAnalysis) ]

RerunInit ==
    /\ pc = "discover"
    /\ exception = "none"
    /\ use_git = FALSE
    /\ git_listing = <<>>
    /\ ignore_patterns \in PatternLists
    /\ verbosity = VERBOSITY_NORMAL
    /\ batch_size \in 1..MaxBatchSize
    /\ max_token_limit = DEFAULT_MAX_TOKEN_LIMIT
    /\ size_of \in SizeProfiles
    /\ LocalsAtEntry
    /\ disk = OnDisk(LeftoverDocument)
    /\ ext_mods = 0
    /\ writes_done = 0
    /\ budgets = <<>>
    /\ BudgetIdle
    /\ IgnoreIdle
    /\ AuxIdle
    /\ HistIdle

SpecRerun == RerunInit /\ [][Next]_vars

(***************************************************************************)
(* get_file_tree (lines 230-272) on a directory with subdirectories, one   *)
(* pass of its loop over os.walk at a time.  A line of the output is       *)
(* given by the path it names, whether it names a directory, its           *)
(* indentation level and whether it has the connector of a last entry.     *)
(***************************************************************************)
\* What os.scandir lists in each directory of the tree, in listing order.
TreeDirs(root) ==
    CASE root = Directory -> <<"src", "build">>
      [] root = Directory \o <<"build">> -> <<"lib">>
      [] root = Directory \o <<"src">> -> <<"build">>
      [] OTHER -> <<>>

TreeFiles(root) ==
    CASE root = Directory -> <<"app.log", "a.py">>
      [] root = Directory \o <<"build">> -> <<"keep.log", "a.py">>
      [] root = Directory \o <<"build", "lib">> -> <<"a.py">>
      [] root = Directory \o <<"src">> -> <<"keep.log", "a.py">>
      [] root = Directory \o <<"src", "build">> -> <<"app.log">>
      [] OTHER -> <<>>

\* The names of the tree in the order sorted() puts them.
NameOrder == <<"a.py", "app.log", "build", "keep.log", "lib", "src">>

sorted(names) ==
    LET Listed(n) == \E k \in DOMAIN names : names[k] = n
    IN  SelectSeq(NameOrder, Listed)

TreePatternPool == PatternPool \cup {"src"}

\* A variant that leaves every subdirectory in dirs.
AllDirs(root, patterns) == TreeDirs(root)

\* Line 251: dirs[:] without the ignored directories.
KeptDirs(root, patterns) ==
    LET Kept(d) == ~is_ignored(root \o <<d>>, Directory, patterns)
    IN  SelectSeq(TreeDirs(root), Kept)

\* Line 254.
VisibleFiles(root, patterns) ==
    LET Visible(f) == ~is_ignored(root \o <<f>>, Directory, patterns)
    IN  SelectSeq(TreeFiles(root), Visible)

TreeLine(path, is_dir, level, last) ==
    [path |-> path, is_dir |-> is_dir, level |-> level, last |-> last]

\* Lines 257-270: the lines for the directories and the files of one root.
LinesOf(root, dirs, visible_files) ==
    LET level == Len(root) - Len(Directory)
        ds == sorted(dirs)
        fs == sorted(visible_files)
    IN  [k \in 1..Len(ds) |->
            TreeLine(root \o <<ds[k]>>, TRUE, level,
                     k = Len(dirs) /\ visible_files = <<>>)]
        \o [k \in 1..Len(fs) |->
            TreeLine(root \o <<fs[k]>>, FALSE, level, k = Len(visible_files))]

TreeInit ==
    /\ tw_pc = "walk"
    /\ tw_patterns \in SeqsUpTo(TreePatternPool, MaxRules)
    /\ tw_pending = <<Directory>>
    /\ tw_output = <<TreeLine(Directory, TRUE, 0, FALSE)>>
    /\ tw_visited = {}
    /\ BudgetIdle
    /\ IgnoreIdle
    /\ RunIdle
    /\ BatchCallIdle
    /\ OptimizeIdle
    /\ EntryIdle
    /\ HistIdle

\* Lines 240-270: one pass of the loop, on the next directory os.walk yields.
\* The directories left in dirs are the ones os.walk goes into next, before
\* the directories that were already pending.
TreeVisit ==
    /\ tw_pc = "walk"
    /\ tw_pending # <<>>
    /\ LET root == Head(tw_pending)
       IN  /\ tw_visited' = tw_visited \cup {root}
           /\ IF root # Directory /\ is_ignored(root, Directory, tw_patterns)
              THEN /\ tw_pending' = Tail(tw_pending)
                   /\ tw_output' = tw_output
              ELSE LET dirs == KeptDirs(root, tw_patterns)
                       visible_files == VisibleFiles(root, tw_patterns)
                   IN  /\ tw_pending' = [k \in DOMAIN dirs |-> root \o <<dirs[k]>>]
                                          \o Tail(tw_pending)
                       /\ tw_output' = tw_output \o LinesOf(root, dirs, visible_files)
    /\ UNCHANGED <<tw_pc, tw_patterns>>
    /\ UNCHANGED <<bt_vars, ig_vars, run_vars, bs_vars, op_vars, en_vars, hist_vars>>

\* Line 272: os.walk is exhausted; the lines are joined and returned.
TreeReturn ==
    /\ tw_pc = "walk"
    /\ tw_pending = <<>>
    /\ tw_pc' = "ret"
    /\ UNCHANGED <<tw_patterns, tw_pending, tw_output, tw_visited>>
    /\ UNCHANGED <<bt_vars, ig_vars, run_vars, bs_vars, op_vars, en_vars, hist_vars>>

TreeNext ==
    \/ TreeVisit
    \/ TreeReturn

SpecTree == TreeInit /\ [][TreeNext]_vars

(***************************************************************************)
(* Properties of the batch loop of process_directory.                      *)
(***************************************************************************)
\* The batch merged last: the one at offset i while its merge is being written.
BatchFiles == {CurrentBatch[k] : k \in DOMAIN CurrentBatch}

\* An entry of file_analyses for a file, under its root-relative path or under
\* the path batch_summarize_files names it by.
HasEntry(analyses, file_path) ==
    relpath(file_path, Directory) \in DOMAIN analyses
    \/ BatchRel(file_path) \in DOMAIN analyses

\* C1 as stated: after the merge step of a batch, whatever the response was,
\* file_analyses holds an entry for every file of the batch.
C1_EveryBatchFileHasEntry ==
    pc = "persist_open" =>
        \A f \in BatchFiles : HasEntry(output_data.file_analyses, f)

\* C2 as stated: no exception leaves the per-batch loop, whatever the response,
\* the document found at the reload, the verbosity and the total size are.
C2_NoExceptionLeavesLoop == pc # "raised"

\* ceil(n / d)
CeilDiv(n, d) == (n + d - 1) \div d

\* C3 as stated: once the k-th batch is persisted, the metadata on disk has
\* completed_batches = k, total_batches = ceil(total_files / batch_size) and
\* files_analyzed = the number of entries of file_analyses, whatever the parse
\* outcome of the batch's response was.
C3_ProgressAfterEveryBatch ==
    (pc \in {"analyze", "finalize"} /\ i > 0) =>
        /\ disk.kind = "doc"
        /\ LET md == disk.doc.metadata
           IN  /\ {"completed_batches", "total_batches", "files_analyzed"}
                      \subseteq DOMAIN md
               /\ md.completed_batches = i \div batch_size
               /\ md.total_batches = CeilDiv(Len(included_files), batch_size)
               /\ md.files_analyzed = Cardinality(DOMAIN disk.doc.file_analyses)

\* A complete, parseable aggregate document.
ValidAggregate(d) ==
    /\ d.kind = "doc"
    /\ {"metadata", "file_tree", "file_analyses"} \subseteq DOMAIN d.doc

\* C4 as stated: if the process is terminated at any point after the initial
\* write, between steps or during a write of the output file, the file holds a
\* complete, parseable aggregate document whose status is in_progress.
C4_TerminationLeavesValidDocument ==
    (pc = "terminated" /\ writes_done >= 1 /\ ext_mods = 0) =>
        /\ ValidAggregate(disk)
        /\ disk.doc.metadata.completion_status = "in_progress"

\* The file list came from the walk of the file system.
UsesWalk == ~(use_git /\ git_listing # <<>>)

Members(q) == {q[k] : k \in DOMAIN q}

\* C5 as stated: whenever discovery uses the walk, a walked file that
\* is_ignored holds for is classified as ignored, and is neither included nor
\* tested with is_text_file.
C5_WalkHonoursIgnoreRules ==
    (UsesWalk /\ pc \in {"initial_open", "initial_dump", "analyze", "reload", "merge",
                         "persist_open", "persist_dump", "finalize", "final_dump",
                         "done"}) =>
        \A f \in Members(all_files) :
            is_ignored(f, Directory, ignore_patterns) =>
                /\ f \in Members(ignored_files)
                /\ f \notin Members(included_files)
                /\ f \notin Members(binary_files)

(***************************************************************************)
(* Properties of the budgets of a run.                                     *)
(***************************************************************************)
RECURSIVE SumSeq(_, _)
SumSeq(q, k) == IF k > Len(q) THEN 0 ELSE q[k] + SumSeq(q, k + 1)

Share(k) ==
    IntOfProportion(
        calculate_batch_size_bytes(Slice(included_files, (k - 1) * batch_size,
                                         batch_size), size_of),
        total_codebase_size, max_token_limit)

\* The batches whose share is below the floor, and so raised to it.
Raised == {k \in 1..Len(budgets) : Share(k) < minimum_limit}

C9_AtLeastMinimum ==
    (bt_pc = "ret" /\ bt_total_codebase_size > 0) =>
        /\ bt_result >= 500
        /\ (bt_batch_size_bytes = 0 /\ bt_total_codebase_size = 1000
            /\ bt_max_token_limit = 50000) => bt_result = 500

C9_Witness ==
    /\ bt_pc = "ret"
    /\ bt_batch_size_bytes = 0
    /\ bt_total_codebase_size = 1000
    /\ bt_max_token_limit = 50000
    /\ bt_result = 500

\* The exact quotient b * c / t, rounded down and rounded to nearest.
ExactFloor(b, t, c) == (b * c) \div t
ExactNearest(b, t, c) == (2 * b * c + t) \div (2 * t)

IgRel == ReplaceBackslash(PathChars(relpath(ig_file_path, Directory)))

EndsWithLog(chars) ==
    Len(chars) >= 4 /\ SubSeq(chars, Len(chars) - 3, Len(chars)) = <<".", "l", "o", "g">>

\* C6 as stated: under the rule list ["*.log", "!keep.log"] is_ignored is false
\* for keep.log and true for every other path ending in .log.
C6_LaterRuleOverrides ==
    (ig_pc = "ret" /\ ig_patterns = <<"*.log", "!keep.log">>) =>
        IF relpath(ig_file_path, Directory) = <<"keep.log">>
        THEN ig_result = FALSE
        ELSE EndsWithLog(IgRel) => ig_result = TRUE

\* C7: is_ignored returns the verdict of the first rule in list order that
\* matches the root-relative path, and false when no rule matches.
C7_FirstMatchDecides ==
    ig_pc = "ret" =>
        LET hits == {k \in 1..Len(ig_patterns) : PatternMatches(IgRel, ig_patterns[k])}
        IN  IF hits = {} THEN ig_result = FALSE
            ELSE LET first == CHOOSE k \in hits : \A j \in hits : k <= j
                 IN  ig_result = ~Negated(ig_patterns[first])

\* keep.log under ["*.log", "!keep.log"]: both rules match, the first decides.
C7_Witness ==
    /\ ig_pc = "ret"
    /\ ig_patterns = <<"*.log", "!keep.log">>
    /\ relpath(ig_file_path, Directory) = <<"keep.log">>
    /\ ig_result = TRUE
(***************************************************************************)
(* Properties of batch_summarize_files.                                    *)
(***************************************************************************)
\* C11: for one batch the service is called at most 3 times, a call is made
\* only when every earlier one raised, the text of the first call that returns
\* is the result, the waits are 5 seconds after the first failure and 10
\* after the second, and there is no wait after the third.
C11_RetrySchedule ==
    /\ Len(attempts) <= max_retries
    /\ \A k \in 1..(Len(attempts) - 1) : attempts[k].outcome = "raised"
    /\ \A k \in DOMAIN sleeps : sleeps[k] = 5 * Pow2(k - 1)
    /\ Len(sleeps) <= 2
    /\ (bs_pc = "call") => Len(sleeps) = Len(attempts)
    /\ (bs_pc \in {"sleep", "ret", "returned"}) => Len(sleeps) = Len(attempts) - 1
    /\ (bs_pc \in {"ret", "returned"}) =>
            IF attempts[Len(attempts)].outcome = "returned"
            THEN bs_result = attempts[Len(attempts)].text
            ELSE Len(attempts) = max_retries /\ bs_result = error_json(CurrentBatch)

C11_Witness ==
    /\ bs_pc = "returned"
    /\ Len(attempts) = 3
    /\ attempts[2].outcome = "raised"
    /\ attempts[3].outcome = "returned"
    /\ sleeps = <<5, 10>>
    /\ batch_analysis = attempts[3].text
\* The call gave up: all three attempts raised.
AllAttemptsRaised ==
    /\ bs_pc \in {"ret", "returned"}
    /\ Len(attempts) = max_retries
    /\ attempts[max_retries].outcome = "raised"

ErrorTagged(analyses, key) ==
    /\ key \in DOMAIN analyses
    /\ analyses[key].t = "dict"
    /\ "error" \in DOMAIN analyses[key].v

\* C12: when all three attempts raise, the payload returned has exactly one
\* error entry per file of the batch, and once it is merged the aggregate has
\* one error entry per file of the batch.
C12_ErrorEntryPerFile ==
    AllAttemptsRaised =>
        /\ pc # "raised"
        /\ bs_result.kind = "object" /\ bs_result.has_files
        /\ bs_result.files.t = "dict"
        /\ Cardinality(DOMAIN bs_result.files.v) = Len(CurrentBatch)
        /\ \A k \in DOMAIN CurrentBatch :
                ErrorTagged(bs_result.files.v, BatchRel(CurrentBatch[k]))
        /\ (pc = "persist_open") =>
                /\ Cardinality(DOMAIN output_data.file_analyses) = Len(CurrentBatch)
                /\ \A k \in DOMAIN CurrentBatch :
                        ErrorTagged(output_data.file_analyses, BatchRel(CurrentBatch[k]))
(***************************************************************************)
(* Properties of the merge.                                                *)
(***************************************************************************)
RelPaths(batch) == {relpath(batch[k], Directory) : k \in DOMAIN batch}

\* C13: merging a text that is not JSON for a batch of n distinct files into
\* the empty aggregate does not raise and leaves exactly n entries, one per
\* file of the batch, each with an error field and the text.
C13_NotJsonGivesErrorPerFile ==
    [][ (pc = "merge" /\ batch_analysis.kind = "notjson"
            /\ output_data.file_analyses = EmptyDict) =>
        /\ pc' = "persist_open"
        /\ DOMAIN output_data'.file_analyses = RelPaths(CurrentBatch)
        /\ Cardinality(DOMAIN output_data'.file_analyses) = Len(CurrentBatch)
        /\ \A key \in RelPaths(CurrentBatch) :
                /\ ErrorTagged(output_data'.file_analyses, key)
                /\ output_data'.file_analyses[key].v.raw_response = batch_analysis ]_vars

C13_Witness ==
    /\ pc = "persist_open"
    /\ batch_analysis.kind = "notjson"
    /\ Len(CurrentBatch) = 3
    /\ Cardinality(DOMAIN output_data.file_analyses) = 3
\* The values the documentation of clean_empty_values calls empty: None, the
\* empty string, the empty list and the empty dict.
IsEmptyValue(j) ==
    \/ j.t = "null"
    \/ j.t = "str" /\ j.v = ""
    \/ j.t = "list" /\ j.v = <<>>
    \/ j.t = "dict" /\ DOMAIN j.v = {}

\* No value inside j, at any depth, is empty.
RECURSIVE OnlyNonEmptyValues(_)
OnlyNonEmptyValues(j) ==
    IF j.t = "dict"
    THEN \A k \in DOMAIN j.v : ~IsEmptyValue(j.v[k]) /\ OnlyNonEmptyValues(j.v[k])
    ELSE IF j.t = "list"
    THEN \A k \in DOMAIN j.v : ~IsEmptyValue(j.v[k]) /\ OnlyNonEmptyValues(j.v[k])
    ELSE TRUE

\* The merge just made was of a JSON object whose "files" is a mapping, into
\* the empty aggregate.
MergedFilesMapping ==
    /\ pc = "persist_open"
    /\ i = 0
    /\ batch_analysis.kind = "object"
    /\ batch_analysis.has_files
    /\ batch_analysis.files.t = "dict"

\* C14: merging {"files": M}, where every analysis of M is non-empty and has
\* only non-empty values, into the empty aggregate gives file_analyses = M and
\* files_analyzed = the number of keys of M.
C14_NonEmptyAnalysesRoundTrip ==
    (/\ MergedFilesMapping
     /\ \A key \in DOMAIN batch_analysis.files.v :
            /\ ~IsEmptyValue(batch_analysis.files.v[key])
            /\ OnlyNonEmptyValues(batch_analysis.files.v[key]))
    => /\ output_data.file_analyses = batch_analysis.files.v
       /\ output_data.metadata.files_analyzed = Cardinality(DOMAIN batch_analysis.files.v)

\* Pruning as documented: the empty values go, recursively, and a container
\* left empty goes with them; everything else stays.
RECURSIVE PruneEmpty(_)
PruneEmpty(j) ==
    IF j.t = "dict"
    THEN LET kept == {k \in DOMAIN j.v : ~IsEmptyValue(PruneEmpty(j.v[k]))}
         IN  JDict([k \in kept |-> PruneEmpty(j.v[k])])
    ELSE IF j.t = "list"
    THEN LET pruned == [k \in DOMAIN j.v |-> PruneEmpty(j.v[k])]
             Keep(e) == ~IsEmptyValue(e)
         IN  JList(SelectSeq(pruned, Keep))
    ELSE j

\* C15: what the merge stores for a file is its analysis without the null
\* values, empty strings, empty lists and empty mappings, recursively, with
\* everything else (0 and false included) unchanged; an analysis pruned to
\* nothing is not stored.
C15_PrunesExactlyEmptyValues ==
    MergedFilesMapping =>
        LET M == batch_analysis.files.v
            stored == {key \in DOMAIN M : ~IsEmptyValue(PruneEmpty(M[key]))}
        IN  output_data.file_analyses = [key \in stored |-> PruneEmpty(M[key])]
(***************************************************************************)
(* Properties of optimize_json_output.                                     *)
(***************************************************************************)
\* C16: optimize_json_output writes the proposed document and returns true
\* only if the repaired text parses, the proposed document serializes to
\* fewer characters than the original one, and the proposed document has the
\* top-level keys metadata, file_tree and file_analyses.
C16_AcceptsOnlySmallerWellFormed ==
    (op_pc = "ret" /\ op_result = "true") =>
        LET proposed == fix_json_errors(optimized_json_str).doc
        IN  /\ Parses(fix_json_errors(optimized_json_str))
            /\ DumpLen(proposed, 2) < DumpLen(original_data, 2)
            /\ proposed.t = "dict"
            /\ {"metadata", "file_tree", "file_analyses"} \subseteq DOMAIN proposed.v
            /\ output_file = OnDisk(proposed)

\* C17: when optimize_json_output returns false for an input document it
\* could read, the output file holds that document.
C17_FailureLeavesOriginal ==
    (op_pc = "ret" /\ op_result = "false" /\ input_file.kind = "doc") =>
        output_file = OnDisk(input_file.doc)
(***************************************************************************)
(* Properties of the reload and of the life of the output file.            *)
(***************************************************************************)
\* A document the merge can work on: it parses and has metadata and
\* file_analyses.
Usable(d) ==
    /\ d.kind = "doc"
    /\ Has(d.doc, "metadata")
    /\ Has(d.doc, "file_analyses")

\* C18: whenever the reload before a merge finds no usable document (the file
\* is missing, does not parse, or lacks metadata or file_analyses), the
\* aggregate the batch is merged into is the template.
C18_UnusableReloadReinitializes ==
    [][ (pc = "reload" /\ pc' = "merge" /\ ~Usable(disk)) =>
            output_data' = Template ]_vars

Completed(d) ==
    /\ d.kind = "doc"
    /\ Has(d.doc, "metadata")
    /\ Has(d.doc.metadata, "completion_status")
    /\ d.doc.metadata.completion_status = "completed"

\* C20: at the first call of the service the output file holds the document
\* with no analyses and status in_progress; the status on disk is completed
\* (with a completion time) only when every batch has been merged and
\* persisted; and once it is completed nothing is merged any more.
C20_Lifecycle ==
    /\ []((pc = "analyze" /\ i = 0) =>
            /\ disk.kind = "doc"
            /\ disk.doc.file_analyses = EmptyDict
            /\ disk.doc.metadata.completion_status = "in_progress")
    /\ [](Completed(disk) =>
            /\ pc = "done"
            /\ Has(disk.doc.metadata, "completion_time")
            /\ writes_done = CeilDiv(Len(included_files), batch_size) + 2)
    /\ [][Completed(disk) => (pc' = "done" /\ output_data' = output_data)]_vars

C20_Witness ==
    /\ pc = "done"
    /\ Completed(disk)
    /\ Len(included_files) = 2
    /\ batch_size = 1
    /\ writes_done = 4
(***************************************************************************)
(* Properties of the entry of process_directory.                           *)
(***************************************************************************)
\* C19: when a custom ignore file is given and missing, or the directory is
\* missing, process_directory exits with a non-zero status, and neither
\* discovers files nor creates the output file.
C19_MissingCustomIgnoreFileExits ==
    (custom_gitignore = "missing" \/ ~dir_exists) =>
        /\ pc \in {"entry", "exited"}
        /\ (pc = "exited") => exit_status # 0
        /\ all_files = <<>>
        /\ disk = Absent
(***************************************************************************)
(* Properties of a run against a leftover output file.                     *)
(***************************************************************************)
\* C21: a run against an output path that holds the in_progress document of
\* an interrupted run first writes a document with no analyses, merges its
\* first batch into a document with no analyses, and goes through every
\* batch from offset 0 on in steps of batch_size, writing once per batch.
C21_RerunStartsOver ==
    /\ [](Len(persisted) >= 1 => persisted[1] = {})
    /\ []((pc = "analyze" /\ writes_done = 1) => i = 0)
    /\ []((pc = "merge" /\ i = 0 /\ ext_mods = 0) =>
            output_data.file_analyses = EmptyDict)
    /\ [][(pc = "persist_dump" /\ pc' # "terminated") =>
            /\ i' = i + batch_size
            /\ pc' = (IF i' < Len(included_files) THEN "analyze" ELSE "finalize")]_vars
    /\ [](pc = "done" =>
            writes_done >= CeilDiv(Len(included_files), batch_size) + 1)

C21_Witness ==
    /\ pc = "done"
    /\ Completed(disk)
    /\ disk.doc.metadata.generated_at = "timestamp"
    /\ Len(included_files) = 3
    /\ Len(persisted) = 4
    /\ persisted[1] = {}
(***************************************************************************)
(* Properties of get_file_tree.                                            *)
(***************************************************************************)
TreeDirPaths ==
    { Directory \o <<"build">>, Directory \o <<"build", "lib">>,
      Directory \o <<"src">>, Directory \o <<"src", "build">> }

\* C22: a directory for which is_ignored holds is never yielded by the walk,
\* and no line of the tree names it or anything beneath it, whatever the
\* rules say of the entries beneath it.
C22_IgnoredDirectoriesArePruned ==
    \A d \in TreeDirPaths :
        is_ignored(d, Directory, tw_patterns) =>
            /\ \A v \in tw_visited : ~IsPrefix(d, v)
            /\ \A k \in DOMAIN tw_pending : ~IsPrefix(d, tw_pending[k])
            /\ \A k \in DOMAIN tw_output : ~IsPrefix(d, tw_output[k].path)

C22_Witness ==
    /\ tw_pc = "ret"
    /\ tw_patterns = <<"build">>
    /\ is_ignored(Directory \o <<"build">>, Directory, tw_patterns)
    /\ ~is_ignored(Directory \o <<"build", "a.py">>, Directory, tw_patterns)
    /\ \E k \in DOMAIN tw_output : tw_output[k].path = Directory \o <<"src", "a.py">>
    /\ \A k \in DOMAIN tw_output : ~IsPrefix(Directory \o <<"build">>, tw_output[k].path)
    /\ Directory \o <<"src">> \in tw_visited
(***************************************************************************)
(* Properties of the batches.                                              *)
(***************************************************************************)
RECURSIVE Concat(_)
Concat(seqs) == IF seqs = <<>> THEN <<>> ELSE Head(seqs) \o Concat(Tail(seqs))

\* C23: the batches formed so far, put one after the other, are the start of
\* the included list in its order; every batch has between 1 and batch_size
\* files and every batch but the last one formed has batch_size; when the
\* loop is over the batches make up the whole list, every file is in exactly
\* one of them, and there are ceil(n / batch_size) of them.
C23_BatchesPartition ==
    /\ \A k \in DOMAIN batches : Len(batches[k]) >= 1 /\ Len(batches[k]) <= batch_size
    /\ \A k \in 1..(Len(batches) - 1) : Len(batches[k]) = batch_size
    /\ Len(Concat(batches)) <= Len(included_files)
    /\ Concat(batches) = SubSeq(included_files, 1, Len(Concat(batches)))
    /\ (pc = "budget_done") =>
            /\ Concat(batches) = included_files
            /\ Len(batches) = CeilDiv(Len(included_files), batch_size)
            /\ \A j \in DOMAIN included_files :
                    Cardinality({k \in DOMAIN batches :
                        \E m \in DOMAIN batches[k] :
                            batches[k][m] = included_files[j]}) = 1

C23_Witness ==
    /\ pc = "budget_done"
    /\ batch_size = 2
    /\ included_files = <<A_py, App_log, Keep_log>>
    /\ batches = <<(<<A_py, App_log>>), (<<Keep_log>>)>>
(***************************************************************************)
(* Properties of the persisted analyses.                                   *)
(***************************************************************************)
\* C24: in a run in which every reload loads a document, the keys of
\* file_analyses in a write of the output file are still there in every
\* later write, the final one included; and unless something else rewrote
\* the file, what it holds is the last write.
C24_AnalysisKeysOnlyGrow ==
    /\ ~reinitialized =>
            \A j \in DOMAIN persisted : \A k \in DOMAIN persisted :
                j <= k => persisted[j] \subseteq persisted[k]
    /\ (ext_mods = 0 /\ disk.kind = "doc") =>
            /\ Len(persisted) = writes_done
            /\ writes_done >= 1
            /\ AnalysisKeys(disk.doc) = persisted[Len(persisted)]

C24_Witness ==
    /\ pc = "done"
    /\ ~reinitialized
    /\ Completed(disk)
    /\ Len(persisted) = 4
    /\ persisted[2] # {}
    /\ persisted[3] # persisted[2]
    /\ persisted[4] = persisted[3]
    /\ AnalysisKeys(disk.doc) = persisted[4]
====
